---------------------------- MODULE Spec2Model ----------------------------
(***************************************************************************)
(* USBOutStreamBoundaryDetector (luna/gateware/usb/stream.py).             *)
(*                                                                         *)
(* The detector is a synchronous circuit in one clock domain.  Every       *)
(* signal the gateware assigns with m.d.usb is a register: the value       *)
(* assigned on a clock step becomes visible on the next one.  A state of   *)
(* this model is the value of every register after a clock edge, together  *)
(* with the input signals that were sampled at that edge.  One action per  *)
(* FSM state describes the edge taken from that state.                     *)
(*                                                                         *)
(* The variables after the first blank line in the VARIABLES list are      *)
(* history variables: they record what an observer of the ports has seen   *)
(* so far and never influence the registers.  Spec records the history of  *)
(* the current packet, for any number of packets; SpecLog records the      *)
(* whole of both streams, for a bounded number of elements.                *)
(***************************************************************************)
EXTENDS Naturals, Sequences, FiniteSets

\* Payload values range over 0..PayloadMax (the gateware's payload is 8 bits wide).
PayloadMax == 1
\* Longest packet (elements taken in between two visits of WAIT_FOR_FIRST_BYTE).
MaxLen == 3
\* Total number of elements the upstream presents in a run that logs both streams.
MaxElems == 3

Payload == 0..PayloadMax

VARIABLES
    fsm,                \* current FSM state
    out_valid,          \* processed_stream.valid
    out_next,           \* processed_stream.next
    out_payload,        \* processed_stream.payload
    first, last,        \* boundary strobes
    complete_out, invalid_out,
    buffered_byte, is_first_byte,
    buffered_complete, buffered_invalid,
    in_valid,           \* unprocessed_stream.valid, as sampled at the last edge
    in_next,            \* unprocessed_stream.next, as sampled at the last edge

    pkt_in,             \* payloads the detector took in for the current packet
    pkt_out,            \* elements seen on the output since the current packet began
    stalled,            \* the current packet had a step with valid && ~next
    cin_first, iin_first, \* status inputs on the step that took the first element
    cin_rx, iin_rx,     \* status inputs OR-ed over the packet's later steps
    after_drain,        \* the last step was taken from OUTPUT_STROBES
    b2b,                \* how the current packet began relative to the last drain
    zlp,                \* valid rose and fell in WAIT_FOR_FIRST_BYTE without next

    presented,          \* payloads presented on the input (valid && next), all steps
    emitted,            \* elements seen on the output (next = 1), all steps
    drain_advance,      \* an element was presented on an OUTPUT_STROBES step

    bridge              \* a USBOutStreamInterface, the transceiver it is bridged to,
                        \* and the outcome of bridge_to

regs == <<fsm, out_valid, out_next, out_payload, first, last, complete_out,
          invalid_out, buffered_byte, is_first_byte, buffered_complete,
          buffered_invalid>>
inputs == <<in_valid, in_next>>
packet_history == <<pkt_in, pkt_out, stalled, cin_first, iin_first, cin_rx,
                    iin_rx, after_drain, b2b, zlp>>
stream_history == <<presented, emitted, drain_advance>>
vars == <<regs, inputs, packet_history, stream_history, bridge>>

-----------------------------------------------------------------------------
(* USBOutStreamInterface *)

\* The fields of the record, as __init__ declares them.
StreamFields == {"valid", "next", "payload"}

\* The signals of the transceiver's receive interface, as the class docstring
\* names them.
UtmiFields == {"rx_active", "rx_valid", "rx_data"}

\* bridge_to(utmi_rx): the connections it lists, each `self.<field>.eq(utmi_rx.<from>)`.
BridgeTo ==
    << [field |-> "valid", from |-> "rx_active"],
       [field |-> "next",  from |-> "rx_valid"],
       [field |-> "data",  from |-> "payload"] >>

\* The transceiver `from` drives stream field f, if a connection names f.
DrivenBy(f, from) == \E k \in DOMAIN BridgeTo : BridgeTo[k] = [field |-> f, from |-> from]

\* Evaluating bridge_to: looking up an attribute the object does not have raises
\* AttributeError; otherwise each connected field follows the transceiver signal.
ApplyBridge(b) ==
    IF \E k \in DOMAIN BridgeTo :
          BridgeTo[k].field \notin StreamFields \/ BridgeTo[k].from \notin UtmiFields
    THEN [b EXCEPT !.result = "AttributeError"]
    ELSE [b EXCEPT !.result = "connected",
                   !.stream = [f \in StreamFields |->
                                 IF \E from \in UtmiFields : DrivenBy(f, from)
                                 THEN b.utmi[CHOOSE from \in UtmiFields : DrivenBy(f, from)]
                                 ELSE b.stream[f]]]

\* A stream and a transceiver with any signal values, not yet bridged.
Unbridged ==
    [stream : [valid : BOOLEAN, next : BOOLEAN, payload : Payload],
     utmi : [rx_active : BOOLEAN, rx_valid : BOOLEAN, rx_data : Payload],
     result : {"none"}]

-----------------------------------------------------------------------------
(* Combinational pieces of elaborate() *)

\* Variant: a byte is taken in whenever the stream is valid.
AcceptOnValid(v, n) == v

\* `in_stream.valid & in_stream.next`: a new byte is taken in.
Accept(v, n) == v /\ n

\* `~in_stream.valid`: the packet is no longer active.
PacketOver(v) == ~v

\* Variant: the sticky strobe buffer samples its input while waiting.
WaitBufferedStrobeSampled(buffered, strobe) == strobe

\* Variant: the sticky strobe buffer is not cleared while waiting.
WaitBufferedStrobeKept(buffered, strobe) == buffered

\* WAIT_FOR_FIRST_BYTE: the next value of a sticky strobe buffer.
WaitBufferedStrobe(buffered, strobe) == FALSE

\* Variant: the strobe output is not cleared while waiting.
WaitStrobeOutHeld(out) == out

\* WAIT_FOR_FIRST_BYTE: the next value of complete_out / invalid_out.
WaitStrobeOut(out) == FALSE

\* Variant: the strobe buffer follows its input instead of latching it.
RxBufferedStrobeUnlatched(buffered, strobe) == strobe

\* RECEIVE_AND_TRANSMIT: the next value of a sticky strobe buffer.
RxBufferedStrobe(buffered, strobe) == buffered \/ strobe

\* Variant: the buffered byte is not output when the packet ends.
RxOutNextOnAcceptOnly(v, n) == Accept(v, n)

\* Variant: a byte is output on every step of the packet.
RxOutNextEveryStep(v, n) == TRUE

\* RECEIVE_AND_TRANSMIT: next value of out_stream.next.
RxOutNext(v, n) == Accept(v, n) \/ PacketOver(v)

\* Variant: `first` is assigned with a new byte only, and dropped with the last one.
RxFirstOnAcceptOnly(v, n) ==
    IF Accept(v, n) THEN is_first_byte ELSE IF PacketOver(v) THEN FALSE ELSE first

\* RECEIVE_AND_TRANSMIT: next value of `first` (assigned only when a byte is output).
RxFirst(v, n) == IF Accept(v, n) \/ PacketOver(v) THEN is_first_byte ELSE first

\* RECEIVE_AND_TRANSMIT: next value of `last`.
RxLast(v) == IF PacketOver(v) THEN TRUE ELSE last

\* Variant: the payload is driven with a new byte only, not when the packet ends.
RxOutPayloadOnAcceptOnly(v, n) == IF Accept(v, n) THEN buffered_byte ELSE out_payload

\* RECEIVE_AND_TRANSMIT: next value of out_stream.payload.
RxOutPayload(v, n) == IF Accept(v, n) \/ PacketOver(v) THEN buffered_byte ELSE out_payload

\* Variant: the incoming byte is not stored.
RxBufferedByteKept(v, n, p) == buffered_byte

\* RECEIVE_AND_TRANSMIT: next value of buffered_byte.
RxBufferedByte(v, n, p) == IF Accept(v, n) THEN p ELSE buffered_byte

\* Variant: is_first_byte is cleared on every step of the packet.
RxIsFirstByteCleared(v, n) == FALSE

\* Variant: is_first_byte is not cleared once the first byte has been output.
RxIsFirstByteKept(v, n) == is_first_byte

\* RECEIVE_AND_TRANSMIT: next value of is_first_byte.
RxIsFirstByte(v, n) == IF Accept(v, n) THEN FALSE ELSE is_first_byte

\* Variant: the machine returns to waiting as soon as the packet ends.
RxNextStateSkipsStrobes(v) ==
    IF PacketOver(v) THEN "WAIT_FOR_FIRST_BYTE" ELSE "RECEIVE_AND_TRANSMIT"

\* Variant: the machine does not move on when the packet ends.
RxNextStateStays(v) == "RECEIVE_AND_TRANSMIT"

\* RECEIVE_AND_TRANSMIT: next FSM state.
RxNextState(v) == IF PacketOver(v) THEN "OUTPUT_STROBES" ELSE "RECEIVE_AND_TRANSMIT"

\* WAIT_FOR_FIRST_BYTE: next FSM state.
WaitNextState(v, n) == IF Accept(v, n) THEN "RECEIVE_AND_TRANSMIT" ELSE "WAIT_FOR_FIRST_BYTE"

\* Variant: the strobes are driven whatever was buffered.
StrobeOutAlways(buffered) == TRUE

\* OUTPUT_STROBES: value driven on complete_out / invalid_out.
StrobeOut(buffered) == buffered

-----------------------------------------------------------------------------
(* The environment drives the input signals for the coming edge: valid (v),
   next (n), payload (p), complete_in (c) and invalid_in (i) are the values the
   detector samples at that edge.  The two the claims speak about step by step,
   valid and next, are kept in the state. *)

Drive(v, n) ==
    /\ in_valid' = v
    /\ in_next' = n

-----------------------------------------------------------------------------
(* The registers' next values, one definition per FSM state. *)

\* with m.State('WAIT_FOR_FIRST_BYTE')
WaitRegs(v, n, p, c, i) ==
    /\ out_valid' = FALSE
    /\ first' = FALSE
    /\ last' = FALSE
    /\ out_next' = FALSE
    /\ buffered_complete' = WaitBufferedStrobe(buffered_complete, c)
    /\ buffered_invalid' = WaitBufferedStrobe(buffered_invalid, i)
    /\ complete_out' = WaitStrobeOut(complete_out)
    /\ invalid_out' = WaitStrobeOut(invalid_out)
    /\ buffered_byte' = IF Accept(v, n) THEN p ELSE buffered_byte
    /\ is_first_byte' = IF Accept(v, n) THEN TRUE ELSE is_first_byte
    /\ fsm' = WaitNextState(v, n)
    /\ UNCHANGED out_payload

\* with m.State('RECEIVE_AND_TRANSMIT')
RxRegs(v, n, p, c, i) ==
    /\ out_valid' = TRUE
    /\ out_next' = RxOutNext(v, n)
    /\ buffered_complete' = RxBufferedStrobe(buffered_complete, c)
    /\ buffered_invalid' = RxBufferedStrobe(buffered_invalid, i)
    /\ out_payload' = RxOutPayload(v, n)
    /\ first' = RxFirst(v, n)
    /\ buffered_byte' = RxBufferedByte(v, n, p)
    /\ is_first_byte' = RxIsFirstByte(v, n)
    /\ last' = RxLast(v)
    /\ fsm' = RxNextState(v)
    /\ UNCHANGED <<complete_out, invalid_out>>

\* with m.State('OUTPUT_STROBES'): the inputs are not read at all.
StrobeRegs ==
    /\ first' = FALSE
    /\ last' = FALSE
    /\ out_next' = FALSE
    /\ complete_out' = StrobeOut(buffered_complete)
    /\ invalid_out' = StrobeOut(buffered_invalid)
    /\ fsm' = "WAIT_FOR_FIRST_BYTE"
    /\ UNCHANGED <<out_valid, out_payload, buffered_byte, is_first_byte,
                   buffered_complete, buffered_invalid>>

-----------------------------------------------------------------------------
(* History: what an observer of the ports records at an edge. *)

\* The element on the output after the edge (read when out_next' holds).
Element == [payload |-> out_payload', first |-> first', last |-> last']

\* The output seen since the current packet began (`base` is the log so far).
ObservePacketOut(base) ==
    pkt_out' = IF out_next' THEN Append(base, Element) ELSE base

\* The logs of the two streams over the whole run.
ObserveStreams(v, n, p) ==
    /\ presented' = IF v /\ n THEN Append(presented, p) ELSE presented
    /\ emitted' = IF out_next' THEN Append(emitted, Element) ELSE emitted

-----------------------------------------------------------------------------
Init ==
    /\ fsm = "WAIT_FOR_FIRST_BYTE"
    /\ out_valid = FALSE /\ out_next = FALSE /\ out_payload = 0
    /\ first = FALSE /\ last = FALSE
    /\ complete_out = FALSE /\ invalid_out = FALSE
    /\ buffered_byte = 0 /\ is_first_byte = FALSE
    /\ buffered_complete = FALSE /\ buffered_invalid = FALSE
    /\ in_valid = FALSE /\ in_next = FALSE
    /\ pkt_in = <<>> /\ pkt_out = <<>>
    /\ stalled = FALSE
    /\ cin_first = FALSE /\ iin_first = FALSE
    /\ cin_rx = FALSE /\ iin_rx = FALSE
    /\ after_drain = FALSE /\ b2b = "none" /\ zlp = FALSE
    /\ presented = <<>> /\ emitted = <<>> /\ drain_advance = FALSE
    /\ bridge = [stream |-> [valid |-> FALSE, next |-> FALSE, payload |-> 0],
                 utmi |-> [rx_active |-> FALSE, rx_valid |-> FALSE, rx_data |-> 0],
                 result |-> "none"]

\* A clock edge taken in WAIT_FOR_FIRST_BYTE.
WaitForFirstByte ==
    /\ fsm = "WAIT_FOR_FIRST_BYTE"
    /\ \E v, n, c, i \in BOOLEAN, p \in Payload :
        /\ Drive(v, n)
        /\ WaitRegs(v, n, p, c, i)
        /\ IF v /\ n
             THEN /\ pkt_in' = <<p>>
                  /\ ObservePacketOut(<<>>)
                  /\ stalled' = FALSE
                  /\ cin_first' = c /\ iin_first' = i
                  /\ cin_rx' = FALSE /\ iin_rx' = FALSE
                  /\ b2b' = IF ~after_drain THEN "none"
                            ELSE IF complete_out \/ invalid_out THEN "after_strobe"
                            ELSE "clean"
                  /\ zlp' = FALSE
             ELSE /\ ObservePacketOut(pkt_out)
                  /\ zlp' = (in_valid /\ ~in_next /\ ~v)
                  /\ UNCHANGED <<pkt_in, stalled, cin_first, iin_first,
                                 cin_rx, iin_rx, b2b>>
        /\ after_drain' = FALSE
        /\ UNCHANGED stream_history
        /\ UNCHANGED bridge

\* A clock edge taken in RECEIVE_AND_TRANSMIT.
ReceiveAndTransmit ==
    /\ fsm = "RECEIVE_AND_TRANSMIT"
    /\ \E v, n, c, i \in BOOLEAN, p \in Payload :
        /\ (v /\ n) => Len(pkt_in) < MaxLen
        /\ Drive(v, n)
        /\ RxRegs(v, n, p, c, i)
        /\ ObservePacketOut(pkt_out)
        /\ pkt_in' = IF v /\ n THEN Append(pkt_in, p) ELSE pkt_in
        /\ stalled' = (stalled \/ (v /\ ~n))
        /\ cin_rx' = (cin_rx \/ c)
        /\ iin_rx' = (iin_rx \/ i)
        /\ after_drain' = FALSE
        /\ UNCHANGED <<cin_first, iin_first, b2b, zlp>>
        /\ UNCHANGED stream_history
        /\ UNCHANGED bridge

\* A clock edge taken in OUTPUT_STROBES.
OutputStrobes ==
    /\ fsm = "OUTPUT_STROBES"
    /\ \E v, n \in BOOLEAN :
        /\ Drive(v, n)
        /\ StrobeRegs
        /\ ObservePacketOut(pkt_out)
        /\ after_drain' = TRUE
        /\ UNCHANGED <<pkt_in, stalled, cin_first, iin_first, cin_rx, iin_rx,
                       b2b, zlp>>
        /\ UNCHANGED stream_history
        /\ UNCHANGED bridge

Next == WaitForFirstByte \/ ReceiveAndTransmit \/ OutputStrobes

Spec == Init /\ [][Next]_vars

-----------------------------------------------------------------------------
(* The same edges, with the whole of both streams logged. *)

InBound(v, n) == (v /\ n) => Len(presented) < MaxElems

LogWaitForFirstByte ==
    /\ fsm = "WAIT_FOR_FIRST_BYTE"
    /\ \E v, n, c, i \in BOOLEAN, p \in Payload :
        /\ InBound(v, n)
        /\ Drive(v, n)
        /\ WaitRegs(v, n, p, c, i)
        /\ ObserveStreams(v, n, p)
        /\ UNCHANGED drain_advance
        /\ UNCHANGED packet_history
        /\ UNCHANGED bridge

LogReceiveAndTransmit ==
    /\ fsm = "RECEIVE_AND_TRANSMIT"
    /\ \E v, n, c, i \in BOOLEAN, p \in Payload :
        /\ InBound(v, n)
        /\ Drive(v, n)
        /\ RxRegs(v, n, p, c, i)
        /\ ObserveStreams(v, n, p)
        /\ UNCHANGED drain_advance
        /\ UNCHANGED packet_history
        /\ UNCHANGED bridge

LogOutputStrobes ==
    /\ fsm = "OUTPUT_STROBES"
    /\ \E v, n \in BOOLEAN, p \in Payload :
        /\ InBound(v, n)
        /\ Drive(v, n)
        /\ StrobeRegs
        /\ ObserveStreams(v, n, p)
        /\ drain_advance' = (drain_advance \/ (v /\ n))
        /\ UNCHANGED packet_history
        /\ UNCHANGED bridge

LogNext == LogWaitForFirstByte \/ LogReceiveAndTransmit \/ LogOutputStrobes

SpecLog == Init /\ [][LogNext]_vars

-----------------------------------------------------------------------------
(* bridge_to, applied to a stream and a transceiver in any state. *)

InitBridge ==
    /\ bridge \in Unbridged
    /\ fsm = "WAIT_FOR_FIRST_BYTE"
    /\ out_valid = FALSE /\ out_next = FALSE /\ out_payload = 0
    /\ first = FALSE /\ last = FALSE
    /\ complete_out = FALSE /\ invalid_out = FALSE
    /\ buffered_byte = 0 /\ is_first_byte = FALSE
    /\ buffered_complete = FALSE /\ buffered_invalid = FALSE
    /\ in_valid = FALSE /\ in_next = FALSE
    /\ pkt_in = <<>> /\ pkt_out = <<>>
    /\ stalled = FALSE
    /\ cin_first = FALSE /\ iin_first = FALSE
    /\ cin_rx = FALSE /\ iin_rx = FALSE
    /\ after_drain = FALSE /\ b2b = "none" /\ zlp = FALSE
    /\ presented = <<>> /\ emitted = <<>> /\ drain_advance = FALSE

BridgeToCall ==
    /\ bridge.result = "none"
    /\ bridge' = ApplyBridge(bridge)
    /\ UNCHANGED <<regs, inputs, packet_history, stream_history>>

SpecBridge == InitBridge /\ [][BridgeToCall]_vars

-----------------------------------------------------------------------------
\* The edge in RECEIVE_AND_TRANSMIT that samples valid low.
PacketEnds == LogReceiveAndTransmit /\ ~in_valid'

\* The clock keeps running, and the upstream ends every packet it began: an edge
\* that samples valid low is taken if the machine keeps waiting for one.
FairSpec == SpecLog /\ WF_vars(LogOutputStrobes) /\ WF_vars(PacketEnds)

-----------------------------------------------------------------------------
(* Properties *)

PayloadsOf(s) == [k \in 1..Len(s) |-> s[k].payload]

IsPrefix(s, t) == Len(s) <= Len(t) /\ \A k \in 1..Len(s) : s[k] = t[k]

\* A packet has been taken in and its last byte has been output.
PacketDone == pkt_in # <<>> /\ fsm # "RECEIVE_AND_TRANSMIT"

\* What the k-th output of the current packet has to be once the packet is done.
Expected(k) == [payload |-> pkt_in[k], first |-> (k = 1), last |-> (k = Len(pkt_in))]

\* C1: a packet of N >= 1 elements presented on N consecutive steps and ended by
\* valid going false produces exactly N outputs, carrying the N payloads in
\* order, with `first` on the first output only and `last` on the N-th only.
C1_PacketBoundaries ==
    (PacketDone /\ ~stalled) =>
        /\ Len(pkt_out) = Len(pkt_in)
        /\ \A k \in 1..Len(pkt_in) : pkt_out[k] = Expected(k)

C1_Witness ==
    /\ fsm = "OUTPUT_STROBES" /\ ~stalled
    /\ Len(pkt_in) = 3 /\ Len(pkt_out) = 3
    /\ pkt_in[1] # pkt_in[2]

\* C2 as stated: a status input asserted on any step of the reception, the step
\* that presents the first element included, gives a pulse on the matching
\* output on the step after `last`, and the output is asserted at no other time.
C2_StrobeForAnyReceptionStep ==
    [][ /\ (last /\ out_next /\ (cin_first \/ cin_rx)) => complete_out'
        /\ (last /\ out_next /\ (iin_first \/ iin_rx)) => invalid_out'
        /\ (complete_out' \/ invalid_out') => (last /\ out_next)
        /\ complete_out => ~complete_out'
        /\ invalid_out => ~invalid_out' ]_vars

\* C2, amended: a status input asserted on any step taken in RECEIVE_AND_TRANSMIT
\* (after the step that took the first element, up to and including the step on
\* which valid is seen false) gives a pulse on the matching output on the step
\* after `last`; the output is asserted on that one step and at no other time.
C2_StrobeForReceiveSteps ==
    [][ /\ (last /\ out_next /\ cin_rx) => complete_out'
        /\ (last /\ out_next /\ iin_rx) => invalid_out'
        /\ (complete_out' \/ invalid_out') => (last /\ out_next)
        /\ complete_out => ~complete_out'
        /\ invalid_out => ~invalid_out' ]_vars

C2_Witness ==
    /\ complete_out /\ ~invalid_out
    /\ cin_rx /\ ~cin_first /\ ~iin_rx
    /\ Len(pkt_in) >= 2

\* C3 as stated: for every input trace the payloads output are the payloads
\* presented, none lost and none duplicated (the element still buffered while a
\* packet is active is the only one that may be outstanding).
C3_NoElementLost ==
    /\ IsPrefix(PayloadsOf(emitted), presented)
    /\ Len(presented) <= Len(emitted) + 1
    /\ fsm # "RECEIVE_AND_TRANSMIT" => Len(presented) = Len(emitted)

\* C3, amended: the payloads output are the payloads presented as long as no
\* element is presented on an OUTPUT_STROBES step.
C3_NoElementLostOutsideDrain == ~drain_advance => C3_NoElementLost

C3_Witness ==
    /\ ~drain_advance /\ fsm = "WAIT_FOR_FIRST_BYTE"
    /\ Len(presented) = 3 /\ Len(emitted) = 3
    /\ emitted[1].last /\ emitted[2].first /\ emitted[3].last
    /\ presented[2] # presented[3]

\* C4: a packet whose first element is taken on the step right after the drain
\* step of the packet before it has `first` on its own first element, `last` on
\* its own last element, and strobes that are the status inputs latched during
\* this packet alone.
C4_BackToBack ==
    b2b # "none" =>
        /\ PacketDone =>
              /\ Len(pkt_out) = Len(pkt_in)
              /\ \A k \in 1..Len(pkt_in) : pkt_out[k] = Expected(k)
        /\ fsm = "RECEIVE_AND_TRANSMIT" => (~complete_out /\ ~invalid_out)
        /\ after_drain => (complete_out = cin_rx /\ invalid_out = iin_rx)

C4_Witness ==
    /\ b2b = "after_strobe" /\ after_drain
    /\ ~complete_out /\ ~invalid_out
    /\ Len(pkt_in) = 2 /\ Len(pkt_out) = 2

\* C5: the one output of a single-element packet has `first` and `last`
\* together; no output of a longer packet has both.
C5_FirstAndLast ==
    /\ \A k \in 1..Len(pkt_out) :
          (pkt_out[k].first /\ pkt_out[k].last) <=> (Len(pkt_in) = 1)
    /\ (PacketDone /\ Len(pkt_in) = 1) => Len(pkt_out) = 1

C5_Witness ==
    /\ fsm = "OUTPUT_STROBES" /\ Len(pkt_in) = 1
    /\ out_next /\ first /\ last

\* C6: complete_out and invalid_out are asserted only on the step after a step
\* with `last` and output next, never together with output next, and never on
\* two consecutive steps, whatever the inputs.
C6_StrobesFollowLast ==
    [][ /\ (complete_out' \/ invalid_out') => (last /\ out_next)
        /\ ~(complete_out' /\ out_next')
        /\ ~(invalid_out' /\ out_next')
        /\ complete_out => ~complete_out'
        /\ invalid_out => ~invalid_out' ]_vars

C6_Witness ==
    /\ complete_out /\ invalid_out /\ ~out_next
    /\ cin_first /\ cin_rx /\ iin_first /\ iin_rx
    /\ stalled

\* C7: a packet during which neither status input was asserted has neither
\* status output asserted from its start to the start of the next packet.
C7_NoStatusNoStrobe ==
    (~cin_first /\ ~cin_rx /\ ~iin_first /\ ~iin_rx) =>
        (~complete_out /\ ~invalid_out)

C7_Witness ==
    /\ after_drain /\ b2b = "after_strobe"
    /\ ~cin_first /\ ~cin_rx /\ ~iin_first /\ ~iin_rx
    /\ ~complete_out /\ ~invalid_out

\* C8: the detector never outputs more elements than it has taken in, and a step
\* in RECEIVE_AND_TRANSMIT with valid true and next false outputs nothing.
C8_NoSpuriousOutput ==
    [][ /\ Len(pkt_out') <= Len(pkt_in')
        /\ out_next' => Len(pkt_in') > Len(pkt_out)
        /\ (fsm = "RECEIVE_AND_TRANSMIT" /\ in_valid' /\ ~in_next') =>
              (~out_next' /\ pkt_out' = pkt_out) ]_vars

C8_Witness ==
    /\ fsm = "RECEIVE_AND_TRANSMIT" /\ in_valid /\ ~in_next
    /\ ~out_next /\ Len(pkt_in) = 2 /\ Len(pkt_out) = 1

\* C9: while valid rises and falls in WAIT_FOR_FIRST_BYTE without next, the
\* machine stays in WAIT_FOR_FIRST_BYTE and every output stays false.
C9_ZeroLengthPacket ==
    [][ (fsm = "WAIT_FOR_FIRST_BYTE" /\ ~(in_valid' /\ in_next')) =>
            /\ fsm' = "WAIT_FOR_FIRST_BYTE"
            /\ ~out_next' /\ ~first' /\ ~last'
            /\ ~complete_out' /\ ~invalid_out'
            /\ pkt_out' = pkt_out ]_vars

C9_Witness ==
    /\ zlp /\ ~in_valid /\ fsm = "WAIT_FOR_FIRST_BYTE"
    /\ pkt_in = <<>> /\ pkt_out = <<>>

\* C10: in RECEIVE_AND_TRANSMIT the detector has taken in exactly one element
\* more than it has output, and that element is the one in the buffer; outside
\* RECEIVE_AND_TRANSMIT it has output as many as it took in.
C10_OneElementBehind ==
    /\ fsm = "RECEIVE_AND_TRANSMIT" =>
          /\ Len(pkt_in) = Len(pkt_out) + 1
          /\ buffered_byte = pkt_in[Len(pkt_in)]
    /\ fsm # "RECEIVE_AND_TRANSMIT" => Len(pkt_in) = Len(pkt_out)

C10_Witness ==
    /\ fsm = "RECEIVE_AND_TRANSMIT"
    /\ Len(pkt_in) = 3 /\ Len(pkt_out) = 2
    /\ pkt_in[2] # pkt_in[3]

\* The output visible before the coming edge is the k-th element of the packet.
Shows(k) ==
    /\ out_valid /\ out_next
    /\ out_payload = pkt_in[k]
    /\ first = (k = 1)
    /\ last = (k = Len(pkt_in))

\* C11: with next asserted on every step of a packet, the element presented on
\* step t is on the processed stream (payload with next = 1) on step t + 2: on
\* the step that presents the element two positions later, on the step that
\* presents valid low for the last but one, and on the drain step for the last;
\* `first` and `last` on that step describe that payload.
C11_TwoStepsBehind ==
    [][ ~stalled' =>
          /\ (fsm = "RECEIVE_AND_TRANSMIT" /\ in_valid' /\ in_next'
                  /\ Len(pkt_in') >= 3) =>
                /\ out_valid /\ out_next
                /\ out_payload = pkt_in'[Len(pkt_in') - 2]
                /\ first = (Len(pkt_in') = 3)
                /\ ~last
          /\ (fsm = "RECEIVE_AND_TRANSMIT" /\ ~in_valid' /\ Len(pkt_in) >= 2) =>
                /\ out_valid /\ out_next
                /\ out_payload = pkt_in[Len(pkt_in) - 1]
                /\ first = (Len(pkt_in) = 2)
                /\ ~last
          /\ fsm = "OUTPUT_STROBES" => Shows(Len(pkt_in)) ]_vars

C11_Witness ==
    /\ fsm = "RECEIVE_AND_TRANSMIT" /\ ~stalled
    /\ in_valid /\ in_next /\ Len(pkt_in) = 3
    /\ pkt_out[1] = [payload |-> pkt_in[1], first |-> TRUE, last |-> FALSE]
    /\ out_next /\ ~first /\ out_payload = pkt_in[2] /\ pkt_in[1] # pkt_in[2]

\* C12: the machine leaves RECEIVE_AND_TRANSMIT only on a step with valid low,
\* such a step takes it to OUTPUT_STROBES and the next step to
\* WAIT_FOR_FIRST_BYTE, a step can always be taken, and so, with valid
\* eventually low, every packet brings the machine back to WAIT_FOR_FIRST_BYTE.
C12_RunsToCompletion ==
    /\ [][ /\ fsm = "RECEIVE_AND_TRANSMIT" =>
                fsm' = IF ~in_valid' THEN "OUTPUT_STROBES" ELSE "RECEIVE_AND_TRANSMIT"
           /\ fsm = "OUTPUT_STROBES" => fsm' = "WAIT_FOR_FIRST_BYTE" ]_vars
    /\ [](ENABLED LogNext)
    /\ (fsm = "RECEIVE_AND_TRANSMIT") ~> (fsm = "WAIT_FOR_FIRST_BYTE")

C12_Witness ==
    /\ fsm = "WAIT_FOR_FIRST_BYTE" /\ out_valid
    /\ Len(emitted) = 2 /\ emitted[2].last /\ ~emitted[1].last

\* C13: bridge_to drives valid from rx_active, next from rx_valid and payload
\* from rx_data, and every field it assigns is a field of the stream record.
C13_BridgeMapsReceiveTriple ==
    bridge.result # "none" =>
        /\ bridge.result = "connected"
        /\ bridge.stream = [valid   |-> bridge.utmi.rx_active,
                            next    |-> bridge.utmi.rx_valid,
                            payload |-> bridge.utmi.rx_data]

\* C14: the machine starts in WAIT_FOR_FIRST_BYTE; from there it moves to
\* RECEIVE_AND_TRANSMIT exactly on valid && next and otherwise stays; from
\* RECEIVE_AND_TRANSMIT it moves to OUTPUT_STROBES exactly on valid low and
\* otherwise stays; OUTPUT_STROBES lasts one step whatever the inputs and leads
\* to WAIT_FOR_FIRST_BYTE, so that state is visited between any two packets.
C14_Transitions ==
    /\ fsm = "WAIT_FOR_FIRST_BYTE"
    /\ [][ /\ fsm = "WAIT_FOR_FIRST_BYTE" =>
                fsm' = IF in_valid' /\ in_next' THEN "RECEIVE_AND_TRANSMIT"
                       ELSE "WAIT_FOR_FIRST_BYTE"
           /\ fsm = "RECEIVE_AND_TRANSMIT" =>
                fsm' = IF ~in_valid' THEN "OUTPUT_STROBES"
                       ELSE "RECEIVE_AND_TRANSMIT"
           /\ fsm = "OUTPUT_STROBES" => fsm' = "WAIT_FOR_FIRST_BYTE"
           /\ (fsm' = "RECEIVE_AND_TRANSMIT" /\ fsm # "RECEIVE_AND_TRANSMIT") =>
                fsm = "WAIT_FOR_FIRST_BYTE" ]_vars

C14_Witness ==
    /\ fsm = "RECEIVE_AND_TRANSMIT" /\ b2b # "none"
    /\ Len(pkt_in) = 1 /\ in_valid /\ in_next

\* C15 as stated: on every step spent in WAIT_FOR_FIRST_BYTE, the first one
\* after a drain included, the output stream is inactive, `first`, `last` and
\* output next are false, and the sticky bits and both strobe outputs are false.
C15_IdleAllClear ==
    fsm = "WAIT_FOR_FIRST_BYTE" =>
        /\ ~out_valid /\ ~first /\ ~last /\ ~out_next
        /\ ~buffered_complete /\ ~buffered_invalid
        /\ ~complete_out /\ ~invalid_out

\* C15, amended: on every step spent in WAIT_FOR_FIRST_BYTE `first`, `last` and
\* output next are false; on every such step but the first one after a drain
\* the output stream is inactive and the sticky bits and strobe outputs are
\* false; on the first step after a drain the output stream is still marked
\* active and the sticky bits and strobe outputs show the packet's status.
C15_IdleClearAfterFirstStep ==
    fsm = "WAIT_FOR_FIRST_BYTE" =>
        /\ ~first /\ ~last /\ ~out_next
        /\ ~after_drain =>
              /\ ~out_valid
              /\ ~buffered_complete /\ ~buffered_invalid
              /\ ~complete_out /\ ~invalid_out
        /\ after_drain =>
              /\ out_valid
              /\ buffered_complete = cin_rx /\ complete_out = cin_rx
              /\ buffered_invalid = iin_rx /\ invalid_out = iin_rx

C15_Witness ==
    /\ fsm = "WAIT_FOR_FIRST_BYTE" /\ ~after_drain
    /\ pkt_in # <<>> /\ cin_rx /\ iin_rx
    /\ ~in_valid

\* C16: buffered_complete and buffered_invalid are false on the step the machine
\* enters RECEIVE_AND_TRANSMIT; in that state neither goes from true to false
\* and each is the OR of its input over the steps taken there so far; the value
\* driven out in OUTPUT_STROBES is that OR for the whole packet.
C16_StickyAccumulators ==
    [][ /\ (fsm = "WAIT_FOR_FIRST_BYTE" /\ fsm' = "RECEIVE_AND_TRANSMIT") =>
              (~buffered_complete' /\ ~buffered_invalid')
        /\ fsm = "RECEIVE_AND_TRANSMIT" =>
              /\ buffered_complete => buffered_complete'
              /\ buffered_invalid => buffered_invalid'
              /\ buffered_complete' = cin_rx'
              /\ buffered_invalid' = iin_rx'
        /\ fsm = "OUTPUT_STROBES" =>
              /\ complete_out' = cin_rx
              /\ invalid_out' = iin_rx ]_vars

C16_Witness ==
    /\ fsm = "RECEIVE_AND_TRANSMIT" /\ b2b = "after_strobe"
    /\ buffered_complete /\ ~buffered_invalid
    /\ cin_first /\ iin_first /\ Len(pkt_in) = 2

\* C17: a step in RECEIVE_AND_TRANSMIT with valid true and next false leaves
\* buffered_byte and is_first_byte as they are, stays in RECEIVE_AND_TRANSMIT
\* and outputs nothing; a packet with such steps between its elements gets the
\* outputs the same packet gets without them.
C17_StallChangesNothing ==
    [][ /\ (fsm = "RECEIVE_AND_TRANSMIT" /\ in_valid' /\ ~in_next') =>
              /\ buffered_byte' = buffered_byte
              /\ is_first_byte' = is_first_byte
              /\ fsm' = "RECEIVE_AND_TRANSMIT"
              /\ ~out_next'
              /\ pkt_out' = pkt_out
        /\ (stalled' /\ pkt_in' # <<>> /\ fsm' # "RECEIVE_AND_TRANSMIT") =>
              /\ Len(pkt_out') = Len(pkt_in')
              /\ \A k \in 1..Len(pkt_in') :
                    pkt_out'[k] = [payload |-> pkt_in'[k], first |-> (k = 1),
                                   last |-> (k = Len(pkt_in'))] ]_vars

C17_Witness ==
    /\ fsm = "OUTPUT_STROBES" /\ stalled
    /\ Len(pkt_in) = 3 /\ Len(pkt_out) = 3
    /\ pkt_out[1].first /\ pkt_out[3].last

\* C18: output next implies the output stream is marked valid, and `last`
\* implies output next on the same step.
C18_NextWithinValid ==
    /\ out_next => out_valid
    /\ last => out_next

C18_Witness ==
    /\ last /\ out_next /\ out_valid /\ ~first
    /\ fsm = "OUTPUT_STROBES" /\ stalled

\* C19 as stated: `first` is asserted only on a step where output next is
\* asserted too.
C19_FirstOnlyWithNext == first => out_next

\* C19, amended: `first` is asserted without output next only on steps in
\* RECEIVE_AND_TRANSMIT that follow a step with valid true and next false, while
\* the packet's first element is the only one output so far; there it keeps the
\* value it had on that output.
C19_FirstHeldOverStall ==
    (first /\ ~out_next) =>
        /\ fsm = "RECEIVE_AND_TRANSMIT"
        /\ in_valid /\ ~in_next
        /\ Len(pkt_out) = 1 /\ pkt_out[1].first
        /\ Len(pkt_in) = 2

C19_Witness ==
    /\ first /\ ~out_next /\ stalled
    /\ fsm = "RECEIVE_AND_TRANSMIT" /\ Len(pkt_out) = 1

=============================================================================
